---- MODULE Spec2Model ----
(***************************************************************************)
(* Portfolio analytics dashboard (src/app.py): the data fetch, the         *)
(* weighted portfolio return computation with weight realignment, and the  *)
(* "Generate Analysis" run of the script.                                  *)
(*                                                                         *)
(* Numbers.  Python floats are modelled by exact rationals <<n, d>> in     *)
(* lowest terms with d > 0; the missing value NaN is <<0, 0>>.             *)
(* Tables.   A pandas DataFrame is [columns, index, values] with           *)
(* values[i][j] the cell of row i (date index[i]) and column j; None is    *)
(* the record NoneData.                                                    *)
(***************************************************************************)
EXTENDS Integers, Sequences, FiniteSets, TLC

VARIABLES pc, tickers, weights, ticker_weight_map, start_date, end_date,
          benchmark_ticker, downloads, data, valid_weights, portfolio_returns, ui

vars == <<pc, tickers, weights, ticker_weight_map, start_date, end_date,
          benchmark_ticker, downloads, data, valid_weights, portfolio_returns, ui>>

(***************************************************************************)
(* Bounds of the model.                                                    *)
(***************************************************************************)
\* the longest list of requested tickers / widest price table
MaxTickers == 2
\* the number of trading dates a price table can have in the function-level runs
MaxRows == 2
\* the number of trading days the data provider has prices for
MaxDays == 2

\* ticker symbols
Symbols == {"A", "B", "C"}

(***************************************************************************)
(* Float arithmetic, as exact rationals.                                   *)
(***************************************************************************)
Abs(n) == IF n < 0 THEN -n ELSE n

RECURSIVE GCD(_, _)
GCD(a, b) == IF b = 0 THEN a ELSE GCD(b, a % b)

\* n/d in lowest terms, d # 0
Rat(n, d) ==
  LET s == IF d < 0 THEN -1 ELSE 1
      g == GCD(Abs(n), Abs(d))
  IN  <<(s * n) \div g, (s * d) \div g>>

NaN == <<0, 0>>
IsNaN(x) == x[2] = 0
Zero == <<0, 1>>
One == <<1, 1>>

RAdd(x, y) == Rat(x[1] * y[2] + y[1] * x[2], x[2] * y[2])
RSub(x, y) == Rat(x[1] * y[2] - y[1] * x[2], x[2] * y[2])
RMul(x, y) == Rat(x[1] * y[1], x[2] * y[2])
\* x / y for y # 0 (Python raises ZeroDivisionError otherwise)
RDiv(x, y) == Rat(x[1] * y[2], x[2] * y[1])
RPos(x) == x[1] > 0

\* sum(xs), starting from 0 as Python's sum does
RECURSIVE RSum(_)
RSum(xs) == IF xs = <<>> THEN Zero ELSE RAdd(RSum(SubSeq(xs, 1, Len(xs) - 1)), xs[Len(xs)])

(***************************************************************************)
(* Sequences and tables.                                                   *)
(***************************************************************************)
Range(s) == {s[i] : i \in DOMAIN s}
SeqsUpTo(S, n) == UNION {[1..k -> S] : k \in 0..n}
NoDuplicates(s) == \A i, j \in DOMAIN s : s[i] = s[j] => i = j

\* the elements of a finite set of integers in increasing order
RECURSIVE SortedSeq(_)
SortedSeq(S) ==
  IF S = {} THEN <<>>
  ELSE LET m == CHOOSE x \in S : \A y \in S : x <= y
       IN  <<m>> \o SortedSeq(S \ {m})

NoneData == [isNone |-> TRUE, columns |-> <<>>, index |-> <<>>, values |-> <<>>]
Table(cols, idx, vals) == [isNone |-> FALSE, columns |-> cols, index |-> idx, values |-> vals]
EmptySeries == [index |-> <<>>, values |-> <<>>]

NCols(df) == Len(df.columns)
NRows(df) == Len(df.index)
\* DataFrame.empty: some axis has length 0
IsEmpty(df) == NRows(df) = 0 \/ NCols(df) = 0
GapFree(df) == \A i \in 1..NRows(df) : \A j \in 1..NCols(df) : ~IsNaN(df.values[i][j])

(***************************************************************************)
(* compute_portfolio_returns (src/app.py:46-64).                           *)
(***************************************************************************)
valid_tickers(df) == df.columns

\* line 51: ticker_weight_map[t] for t in valid_tickers; a missing key raises KeyError
LookupFails(df, wmap) == \E i \in 1..NCols(df) : df.columns[i] \notin DOMAIN wmap
raw_weights(df, wmap) == [i \in 1..NCols(df) |-> wmap[df.columns[i]]]

total_w(df, wmap) == RSum(raw_weights(df, wmap))

\* a slip in line 55: the raw weights kept as they are, not divided by their total
Renormalised_Undivided(raw, total) == raw

\* line 55, first branch: w / total_w for each raw weight
Renormalised(raw, total) == [i \in 1..Len(raw) |-> RDiv(raw[i], total)]
\* a slip in line 55: [1] * len(valid_tickers), the division by the count left out
EqualWeights_Ones(n) == [i \in 1..n |-> One]

\* line 55, second branch: [1/len(valid_tickers)] * len(valid_tickers)
EqualWeights(n) == [i \in 1..n |-> RDiv(One, Rat(n, 1))]

\* line 55 evaluates 1/len(valid_tickers) whenever total_w is not > 0
DivisionFails(df, wmap) == ~RPos(total_w(df, wmap)) /\ NCols(df) = 0

realigned_weights(df, wmap) ==
  IF RPos(total_w(df, wmap))
  THEN Renormalised(raw_weights(df, wmap), total_w(df, wmap))
  ELSE EqualWeights(NCols(df))

\* DataFrame.ffill: each cell takes the last value present at or above it
RECURSIVE LastValid(_, _, _)
LastValid(vals, i, j) ==
  IF i = 0 THEN NaN
  ELSE IF ~IsNaN(vals[i][j]) THEN vals[i][j]
  ELSE LastValid(vals, i - 1, j)

ffill(df) ==
  Table(df.columns, df.index,
        [i \in 1..NRows(df) |-> [j \in 1..NCols(df) |-> LastValid(df.values, i, j)]])

\* a slip in line 58: the first row kept with return 0 (pct_change().fillna(0))
pct_change_FirstRowKept(df, fill_method) ==
  LET cell(i, j) ==
        IF i = 1 THEN Zero
        ELSE IF IsNaN(df.values[i][j]) \/ IsNaN(df.values[i - 1][j]) THEN NaN
        ELSE RSub(RDiv(df.values[i][j], df.values[i - 1][j]), One)
  IN  Table(df.columns, df.index,
            [i \in 1..NRows(df) |-> [j \in 1..NCols(df) |-> cell(i, j)]])

\* DataFrame.pct_change: price[i]/price[i-1] - 1, NaN in the first row and
\* wherever either price is missing.  fill_method "pad" (the default of
\* pandas before 3.0) forward-fills first; "none" does not.
pct_change(df, fill_method) ==
  LET src == IF fill_method = "pad" THEN ffill(df) ELSE df
      cell(i, j) ==
        IF i = 1 THEN NaN
        ELSE IF IsNaN(src.values[i][j]) \/ IsNaN(src.values[i - 1][j]) THEN NaN
        ELSE RSub(RDiv(src.values[i][j], src.values[i - 1][j]), One)
  IN  Table(df.columns, df.index,
            [i \in 1..NRows(df) |-> [j \in 1..NCols(df) |-> cell(i, j)]])

\* DataFrame.dropna: the rows with no missing cell
dropna(df) ==
  LET keep == {i \in 1..NRows(df) : \A j \in 1..NCols(df) : ~IsNaN(df.values[i][j])}
      rows == SortedSeq(keep)
  IN  Table(df.columns,
            [k \in 1..Len(rows) |-> df.index[rows[k]]],
            [k \in 1..Len(rows) |-> df.values[rows[k]]])

\* a slip in line 63: the weights taken in another order than the columns
weighted_sum_Misaligned(returns, w) ==
  [index  |-> returns.index,
   values |-> [i \in 1..NRows(returns) |->
                 RSum([j \in 1..NCols(returns) |->
                         RMul(returns.values[i][j], w[NCols(returns) + 1 - j])])]]

\* line 63: (returns * valid_weights).sum(axis=1): column j times weight j
weighted_sum(returns, w) ==
  [index  |-> returns.index,
   values |-> [i \in 1..NRows(returns) |->
                 RSum([j \in 1..NCols(returns) |-> RMul(returns.values[i][j], w[j])])]]

\* the call: which exception it raises ("none": it returns), the local
\* valid_weights when line 55 completed, and the returned series
compute_portfolio_returns(df, wmap, fill_method) ==
  IF LookupFails(df, wmap)
  THEN [exception |-> "KeyError", valid_weights |-> <<>>, series |-> EmptySeries]
  ELSE IF DivisionFails(df, wmap)
  THEN [exception |-> "ZeroDivisionError", valid_weights |-> <<>>, series |-> EmptySeries]
  ELSE LET w == realigned_weights(df, wmap)
           returns == dropna(pct_change(df, fill_method))
       IN  [exception |-> "none", valid_weights |-> w,
            series |-> IF IsEmpty(returns) THEN EmptySeries ELSE weighted_sum(returns, w)]


(***************************************************************************)
(* fetch_data (src/app.py:22-44).  downloads[i] is what the i-th call of   *)
(* yf.download(...)['Close'] does: it raises, returns an empty series, or  *)
(* returns a series of prices on some dates.                               *)
(***************************************************************************)
Raised == [kind |-> "exception", index |-> <<>>, prices |-> <<>>]
NoRows == [kind |-> "empty", index |-> <<>>, prices |-> <<>>]
Series(idx, prices) == [kind |-> "data", index |-> idx, prices |-> prices]

\* a slip in line 29: the emptiness test left out, every returned series kept
Kept_EmptyToo(dl) == dl.kind # "exception"

\* line 29 inside the try of line 26: the download returned and is not empty
Kept(dl) == dl.kind = "data"

\* the dict valid_data after the first i iterations of the loop of line 25:
\* its keys in insertion order, its values, and the warnings shown so far
RECURSIVE valid_data(_, _, _)
valid_data(ts, dls, i) ==
  IF i = 0 THEN [keys |-> <<>>, val |-> <<>>, warnings |-> 0]
  ELSE LET prev == valid_data(ts, dls, i - 1)
           t == ts[i]
       IN  IF Kept(dls[i])
           THEN [keys |-> IF t \in Range(prev.keys) THEN prev.keys ELSE Append(prev.keys, t),
                 val  |-> [k \in DOMAIN prev.val \cup {t} |-> IF k = t THEN dls[i] ELSE prev.val[k]],
                 warnings |-> prev.warnings]
           ELSE [prev EXCEPT !.warnings = @ + 1]

\* the price a series has on date d, NaN when d is not one of its dates
PriceOn(s, d) ==
  IF \E k \in DOMAIN s.index : s.index[k] = d
  THEN s.prices[CHOOSE k \in DOMAIN s.index : s.index[k] = d]
  ELSE NaN

\* line 44: pd.concat(values, axis=1, keys=keys): one column per key, the
\* union of the series' dates as index, NaN where a series has no such date
concat(keys, val) ==
  LET idx == SortedSeq(UNION {Range(val[keys[j]].index) : j \in DOMAIN keys})
  IN  Table(keys, idx,
            [i \in DOMAIN idx |-> [j \in DOMAIN keys |-> PriceOn(val[keys[j]], idx[i])]])

fetch_data(ts, dls) ==
  LET vd == valid_data(ts, dls, Len(ts))
  IN  IF vd.keys = <<>> THEN NoneData ELSE concat(vd.keys, vd.val)

\* the st.warning calls of lines 36 and 38
fetch_warnings(ts, dls) == valid_data(ts, dls, Len(ts)).warnings

(***************************************************************************)
(* State shared by the specifications.                                     *)
(***************************************************************************)
NotComputed == [exception |-> "none", index |-> <<>>, values |-> <<>>]

\* what one run of the script has put on the page
BlankPage ==
  [fetch_called |-> FALSE, errors |-> 0, warnings |-> 0, metrics |-> FALSE,
   weights_chart |-> FALSE, final_weights |-> <<>>, return_plots |-> FALSE,
   report |-> FALSE, exception |-> "none"]

FillMethods == {"pad", "none"}

(***************************************************************************)
(* SpecCompute: compute_portfolio_returns called on price tables and       *)
(* weight maps drawn from bounded sets.                                    *)
(***************************************************************************)
PriceVals == {100, 110}
WeightVals == {0, 30, 70}

ColumnLists == {c \in SeqsUpTo(Symbols, MaxTickers) : NoDuplicates(c)}

\* the gap-free tables with up to MaxTickers columns and up to MaxRows rows
GapFreeTables ==
  UNION {{Table(c, [i \in 1..n |-> i], v) :
            v \in [1..n -> [1..Len(c) -> {Rat(p, 1) : p \in PriceVals}]]} :
          c \in ColumnLists, n \in 0..MaxRows}

WeightMaps == UNION {[S -> {Rat(w, 1) : w \in WeightVals}] : S \in SUBSET Symbols}

\* spec.md section 8, scenarios A and B (prices in tenths; returns are ratios)
ScenarioA ==
  [df   |-> Table(<<"A", "B">>, <<1, 2, 3>>,
                  <<<<Rat(1000, 1), Rat(500, 1)>>, <<Rat(1100, 1), Rat(550, 1)>>,
                    <<Rat(1210, 1), Rat(495, 1)>>>>),
   wmap |-> [t \in {"A", "B"} |-> Rat(50, 1)]]
ScenarioB ==
  [df   |-> Table(<<"A">>, <<1, 2>>, <<<<Rat(100, 1)>>, <<Rat(110, 1)>>>>),
   wmap |-> [t \in {"A", "B"} |-> IF t = "A" THEN Rat(70, 1) ELSE Rat(30, 1)]]

InitCompute ==
  /\ pc = "compute_call"
  /\ \/ data \in GapFreeTables /\ ticker_weight_map \in WeightMaps
     \/ data = ScenarioA.df /\ ticker_weight_map = ScenarioA.wmap
     \/ data = ScenarioB.df /\ ticker_weight_map = ScenarioB.wmap
  /\ tickers = <<>> /\ weights = <<>> /\ start_date = 1 /\ end_date = 1
  /\ benchmark_ticker = "" /\ downloads = <<>>
  /\ valid_weights = <<>>
  /\ portfolio_returns = NotComputed
  /\ ui = BlankPage

ComputeCall ==
  /\ pc = "compute_call"
  /\ \E fm \in FillMethods :
       \E r \in {compute_portfolio_returns(data, ticker_weight_map, fm)} :
         /\ valid_weights' = r.valid_weights
         /\ portfolio_returns' =
              [exception |-> r.exception, index |-> r.series.index, values |-> r.series.values]
  /\ pc' = "compute_return"
  /\ UNCHANGED <<tickers, weights, ticker_weight_map, start_date, end_date,
                 benchmark_ticker, downloads, data, ui>>

NextCompute == ComputeCall

SpecCompute == InitCompute /\ [][NextCompute]_vars

(***************************************************************************)
(* Claims about compute_portfolio_returns, checked under SpecCompute.      *)
(* A weight map of the program is keyed by the requested tickers, of which *)
(* the table's columns are a subset (src/app.py:138, spec.md section 4.1   *)
(* Inputs); KeysPresent states this.  The other maps are C6's subject.     *)
(***************************************************************************)
Returned == pc = "compute_return"
KeysPresent == Range(data.columns) \subseteq DOMAIN ticker_weight_map

\* the position of instrument t among the columns
ColumnOf(t) == CHOOSE j \in 1..NCols(data) : data.columns[j] = t
\* instrument t's return at row i >= 2: price[i]/price[i-1] - 1
ReturnOf(t, i) ==
  RSub(RDiv(data.values[i][ColumnOf(t)], data.values[i - 1][ColumnOf(t)]), One)

RECURSIVE SumOver(_, _)
SumOver(S, f) ==
  IF S = {} THEN Zero
  ELSE LET t == CHOOSE x \in S : TRUE IN RAdd(f[t], SumOver(S \ {t}, f))

\* instrument t's realigned weight, by name: its requested weight over the
\* total of the surviving instruments, or the equal share when that total is 0
RequestedTotal == SumOver(Range(data.columns), ticker_weight_map)
RealignedWeightOf(t) ==
  IF RPos(RequestedTotal) THEN RDiv(ticker_weight_map[t], RequestedTotal)
  ELSE Rat(1, NCols(data))

\* C1: for a gap-free table with at least one instrument and two rows, the
\* output has one entry for each date after the first, and that entry is the
\* sum over the instruments of the instrument's own return times the
\* instrument's own realigned weight.
C1_WeightedSumByInstrument ==
  (Returned /\ KeysPresent /\ GapFree(data) /\ NCols(data) >= 1 /\ NRows(data) >= 2) =>
    /\ portfolio_returns.exception = "none"
    /\ portfolio_returns.index = SubSeq(data.index, 2, NRows(data))
    /\ \A i \in 2..NRows(data) :
         portfolio_returns.values[i - 1] =
           SumOver(Range(data.columns),
                   [t \in Range(data.columns) |-> RMul(ReturnOf(t, i), RealignedWeightOf(t))])

\* C1's case: two instruments with different requested weights and different
\* returns on some date, so that swapping the weights would change the output
C1_Witness ==
  /\ Returned /\ KeysPresent /\ NCols(data) = 2 /\ NRows(data) >= 2
  /\ ticker_weight_map[data.columns[1]] # ticker_weight_map[data.columns[2]]
  /\ RPos(RequestedTotal)
  /\ ReturnOf(data.columns[1], 2) # ReturnOf(data.columns[2], 2)
  /\ portfolio_returns.exception = "none"
  /\ Len(portfolio_returns.values) = NRows(data) - 1

\* spec.md scenario A: returns A = [0.10, 0.10], B = [0.10, -0.10], weights
\* 50/50 give portfolio returns [0.10, 0.00]
ScenarioA_Result ==
  (Returned /\ data = ScenarioA.df /\ ticker_weight_map = ScenarioA.wmap) =>
    /\ valid_weights = <<Rat(1, 2), Rat(1, 2)>>
    /\ portfolio_returns.values = <<Rat(1, 10), Zero>>

NonNegative(wmap) == \A t \in DOMAIN wmap : wmap[t][1] >= 0

\* C2: with at least one column and non-negative weights, valid_weights has
\* one entry per column and sums to 1, whichever columns survived.
C2_WeightsSumToOne ==
  (Returned /\ KeysPresent /\ NCols(data) >= 1 /\ NonNegative(ticker_weight_map)) =>
    /\ portfolio_returns.exception = "none"
    /\ Len(valid_weights) = NCols(data)
    /\ RSum(valid_weights) = One

\* C2's case: a requested ticker with a positive weight did not survive and
\* the surviving weights were divided by a total other than 1
C2_Witness ==
  /\ Returned /\ KeysPresent /\ NCols(data) >= 1
  /\ \E t \in DOMAIN ticker_weight_map \ Range(data.columns) : RPos(ticker_weight_map[t])
  /\ RPos(RequestedTotal) /\ RequestedTotal # One
  /\ RSum(valid_weights) = One

AllZero == \A j \in 1..NCols(data) : ticker_weight_map[data.columns[j]] = Zero

\* C4: if every instrument of the table has weight 0 and the table has
\* n >= 1 instruments, each realigned weight is 1/n.
C4_EqualWeightFallback ==
  (Returned /\ KeysPresent /\ NCols(data) >= 1 /\ AllZero) =>
    /\ Len(valid_weights) = NCols(data)
    /\ \A j \in 1..NCols(data) : valid_weights[j] = Rat(1, NCols(data))

\* C4's case: two or more instruments, all of weight 0, realigned
C4_Witness ==
  /\ Returned /\ KeysPresent /\ NCols(data) >= 2 /\ AllZero
  /\ Len(valid_weights) = NCols(data)

\* C5: a table with no columns gives an empty series and no exception.
C5_NoColumnsEmptySeries ==
  (Returned /\ NCols(data) = 0) =>
    /\ portfolio_returns.exception = "none"
    /\ portfolio_returns.index = <<>>

\* the weight map with weight 0 for every instrument it has no entry for
Completed(wmap) == [t \in Symbols |-> IF t \in DOMAIN wmap THEN wmap[t] ELSE Zero]

\* C6: a column with no entry in the weight map gets raw weight 0 and takes
\* part in the renormalisation; the lookup raises nothing.
C6_MissingWeightIsZero ==
  (Returned /\ ~KeysPresent) =>
    /\ portfolio_returns.exception = "none"
    /\ valid_weights = realigned_weights(data, Completed(ticker_weight_map))

\* C9: for a gap-free table with n rows and at least one instrument the
\* result is returned normally and has n-1 entries when n >= 1, none when
\* n = 0; so fewer than two rows give an empty series.
C9_OneRowShorter ==
  (Returned /\ KeysPresent /\ GapFree(data) /\ NCols(data) >= 1) =>
    /\ portfolio_returns.exception = "none"
    /\ Len(portfolio_returns.index) = (IF NRows(data) >= 1 THEN NRows(data) - 1 ELSE 0)
    /\ Len(portfolio_returns.values) = Len(portfolio_returns.index)
    /\ (NRows(data) < 2 => portfolio_returns.index = <<>>)

\* C9's cases: a one-row table returned as an empty series, and a longer
\* table that lost exactly its first date
C9_Witness ==
  /\ Returned /\ KeysPresent /\ NCols(data) >= 1 /\ NRows(data) = MaxRows
  /\ portfolio_returns.exception = "none"
  /\ Len(portfolio_returns.index) = MaxRows - 1

C9_WitnessOneRow ==
  /\ Returned /\ KeysPresent /\ NCols(data) >= 1 /\ NRows(data) = 1
  /\ portfolio_returns.exception = "none"
  /\ portfolio_returns.index = <<>>

(***************************************************************************)
(* The data provider: the close price of ticker t on trading day d, and    *)
(* what one download of t for the days from..to-1 can do.                  *)
(***************************************************************************)
MarketPrice(t, d) ==
  IF t = "A" THEN 100 + 10 * d ELSE IF t = "B" THEN 50 + 5 * (d % 2) ELSE 20 + d

SeriesOn(t, D) ==
  LET idx == SortedSeq(D)
  IN  Series(idx, [k \in DOMAIN idx |-> Rat(MarketPrice(t, idx[k]), 1)])

DownloadsOf(t, from, to) ==
  {Raised, NoRows} \cup {SeriesOn(t, D) : D \in (SUBSET (from..(to - 1))) \ {{}}}

RECURSIVE DownloadSeqs(_, _, _)
DownloadSeqs(ts, from, to) ==
  IF ts = <<>> THEN {<<>>}
  ELSE {Append(dls, dl) : dls \in DownloadSeqs(SubSeq(ts, 1, Len(ts) - 1), from, to),
                          dl \in DownloadsOf(ts[Len(ts)], from, to)}

(***************************************************************************)
(* SpecFetch: fetch_data called on every list of up to MaxTickers tickers  *)
(* (repeats included) with every outcome of each download.                 *)
(***************************************************************************)
InitFetch ==
  /\ pc = "fetch_call"
  /\ tickers \in SeqsUpTo(Symbols, MaxTickers)
  /\ start_date = 1 /\ end_date = MaxDays + 1
  /\ downloads \in DownloadSeqs(tickers, start_date, end_date)
  /\ weights = <<>> /\ ticker_weight_map = <<>> /\ benchmark_ticker = ""
  /\ data = NoneData
  /\ valid_weights = <<>>
  /\ portfolio_returns = NotComputed
  /\ ui = BlankPage

FetchCall ==
  /\ pc = "fetch_call"
  /\ data' = fetch_data(tickers, downloads)
  /\ ui' = [ui EXCEPT !.fetch_called = TRUE, !.warnings = fetch_warnings(tickers, downloads)]
  /\ pc' = "fetch_return"
  /\ UNCHANGED <<tickers, weights, ticker_weight_map, start_date, end_date,
                 benchmark_ticker, downloads, valid_weights, portfolio_returns>>

NextFetch == FetchCall

SpecFetch == InitFetch /\ [][NextFetch]_vars

Fetched == pc = "fetch_return"
Succeeded == {i \in DOMAIN tickers : downloads[i].kind = "data"}
FirstSuccess(t) == CHOOSE i \in Succeeded : tickers[i] = t /\ \A k \in Succeeded : tickers[k] = t => i <= k
LastSuccess(t) == CHOOSE i \in Succeeded : tickers[i] = t /\ \A k \in Succeeded : tickers[k] = t => k <= i

\* C7: the columns of the returned table are exactly the tickers with a
\* download that returned data, each once, in the order of the requests that
\* succeeded; a column holds what its download returned, so no column is
\* all-missing; a failed or empty download stops nothing; and the result is
\* None exactly when no download succeeded.
C7_ColumnsAreSuccessfulTickers ==
  Fetched =>
    /\ data.isNone <=> Succeeded = {}
    /\ Range(data.columns) = {tickers[i] : i \in Succeeded}
    /\ NoDuplicates(data.columns)
    /\ \A a, b \in DOMAIN data.columns :
         a < b => FirstSuccess(data.columns[a]) < FirstSuccess(data.columns[b])
    /\ \A j \in DOMAIN data.columns :
         /\ \E i \in DOMAIN data.index : ~IsNaN(data.values[i][j])
         /\ \A i \in DOMAIN data.index :
              data.values[i][j] = PriceOn(downloads[LastSuccess(data.columns[j])], data.index[i])
    /\ ui.warnings = Len(tickers) - Cardinality(Succeeded)

\* C7's case: a download that raised and one that was empty, each followed
\* by a download that returned data and became a column
C7_Witness ==
  /\ Fetched /\ Len(tickers) = 2
  /\ downloads[1].kind = "exception" /\ downloads[2].kind = "data"
  /\ data.columns = <<tickers[2]>>

C7_WitnessEmpty ==
  /\ Fetched /\ Len(tickers) = 2 /\ tickers[1] # tickers[2]
  /\ downloads[1].kind = "empty" /\ downloads[2].kind = "data"
  /\ data.columns = <<tickers[2]>>

(***************************************************************************)
(* Spec: the script (src/app.py:119-190).  Streamlit runs it from top to   *)
(* bottom whenever a widget changes (SidebarRerun) and when the button     *)
(* "Generate Analysis" is clicked (the Generate actions, which read the    *)
(* widget values of the page as it stands).                                *)
(***************************************************************************)
SliderMax == 100

\* line 123: split on ",", strip each field, drop the blank ones
RawFields == {"A", " B", " "}
Strip(f) == IF f = " B" THEN "B" ELSE IF f = " " THEN "" ELSE f
parse_tickers(fields) == SelectSeq([i \in DOMAIN fields |-> Strip(fields[i])], LAMBDA t : t # "")

\* line 129: the value a slider shows until it is moved
default_val(n) == SliderMax \div n
\* the slider positions the model tries: both ends and the default
SliderChoices(n) == IF n = 0 THEN {} ELSE {0, default_val(n), SliderMax}

\* lines 133-135
normalized_weights(ws) ==
  LET total_weight_input == RSum([i \in DOMAIN ws |-> Rat(ws[i], 1)])
  IN  IF RPos(total_weight_input)
      THEN [i \in DOMAIN ws |-> RDiv(Rat(ws[i], 1), total_weight_input)]
      ELSE [i \in DOMAIN ws |-> RDiv(One, Rat(Len(ws), 1))]

\* line 138: dict(zip(tickers, normalized_weights)); a repeated key keeps its last value
weight_map(ts, ws) ==
  LET nw == normalized_weights(ws)
  IN  [t \in Range(ts) |->
         nw[CHOOSE i \in DOMAIN ts : ts[i] = t /\ \A k \in DOMAIN ts : ts[k] = t => k <= i]]

\* a slip in line 150: > for >=, equal dates let through
DatesRejected_EqualAllowed(from, to) == from > to

\* line 150
DatesRejected(from, to) == from >= to

Days == 1..(MaxDays + 1)
BenchmarkInputs == {"", "^GSPC"}

\* lines 122-142 in a run with the button not pressed: the sidebar values
\* are read and the page shows nothing else.  Two sliders with the same
\* label are refused by Streamlit before the button is reached, so the
\* tickers of a run that reaches it are distinct.
SidebarRun(ts, ws, from, to, bench) ==
  /\ NoDuplicates(ts)
  /\ Len(ws) = Len(ts)
  /\ tickers' = ts
  /\ weights' = ws
  /\ ticker_weight_map' = (IF ts # <<>> THEN weight_map(ts, ws) ELSE <<>>)
  /\ start_date' = from
  /\ end_date' = to
  /\ benchmark_ticker' = bench
  /\ pc' = "sidebar"
  /\ downloads' = <<>>
  /\ data' = NoneData
  /\ valid_weights' = <<>>
  /\ portfolio_returns' = NotComputed
  /\ ui' = BlankPage

InitialFields == <<"A", " B">>

Init ==
  /\ pc = "sidebar"
  /\ tickers = parse_tickers(InitialFields)
  /\ weights = [i \in 1..2 |-> default_val(2)]
  /\ ticker_weight_map = weight_map(tickers, weights)
  /\ start_date = 1 /\ end_date = MaxDays + 1
  /\ benchmark_ticker = "^GSPC"
  /\ downloads = <<>>
  /\ data = NoneData
  /\ valid_weights = <<>>
  /\ portfolio_returns = NotComputed
  /\ ui = BlankPage

\* the text area changed: the sliders are drawn anew, one per ticker
EditTickers ==
  \E ts \in {parse_tickers(fields) : fields \in SeqsUpTo(RawFields, MaxTickers) \ {<<>>}} :
    \E ws \in [1..Len(ts) -> SliderChoices(Len(ts))] :
      SidebarRun(ts, ws, start_date, end_date, benchmark_ticker)

\* a slider moved
MoveSlider ==
  \E i \in DOMAIN weights : \E w \in SliderChoices(Len(weights)) :
    SidebarRun(tickers, [weights EXCEPT ![i] = w], start_date, end_date, benchmark_ticker)

\* a date picker changed
PickStartDate ==
  \E d \in Days : SidebarRun(tickers, weights, d, end_date, benchmark_ticker)

PickEndDate ==
  \E d \in Days : SidebarRun(tickers, weights, start_date, d, benchmark_ticker)

\* the benchmark text changed
EditBenchmark ==
  \E bench \in BenchmarkInputs : SidebarRun(tickers, weights, start_date, end_date, bench)

NothingComputed ==
  /\ downloads' = <<>>
  /\ data' = NoneData
  /\ valid_weights' = <<>>
  /\ portfolio_returns' = NotComputed

SidebarKept ==
  UNCHANGED <<tickers, weights, ticker_weight_map, start_date, end_date, benchmark_ticker>>

\* lines 148-149
GenerateNoTickers ==
  /\ tickers = <<>>
  /\ ui' = [BlankPage EXCEPT !.errors = 1]
  /\ pc' = "analysed"
  /\ NothingComputed
  /\ SidebarKept

\* lines 150-151
GenerateBadDates ==
  /\ tickers # <<>>
  /\ DatesRejected(start_date, end_date)
  /\ ui' = [BlankPage EXCEPT !.errors = 1]
  /\ pc' = "analysed"
  /\ NothingComputed
  /\ SidebarKept

\* lines 171-173: None when total_curr is 0 (cw/total_curr raises ZeroDivisionError)
final_weights(df, wmap) ==
  LET current_weights == [j \in 1..NCols(df) |-> wmap[df.columns[j]]]
      total_curr == RSum(current_weights)
  IN  IF total_curr = Zero THEN [raises |-> TRUE, weights |-> <<>>]
      ELSE [raises |-> FALSE,
            weights |-> [j \in 1..NCols(df) |-> RDiv(current_weights[j], total_curr)]]

\* lines 156-188: the page after a fetch that returned a table
results_page(ts, df, wmap, fetch_warned, r, bench, bench_dl) ==
  LET skipped == IF NCols(df) < Len(ts) THEN 1 ELSE 0
      empty == r.series.index = <<>>
      fw == final_weights(df, wmap)
      p0 == [BlankPage EXCEPT !.fetch_called = TRUE, !.warnings = fetch_warned + skipped]
      \* line 168: display_metrics
      p1 == [p0 EXCEPT !.metrics = ~empty, !.errors = IF empty THEN 1 ELSE 0]
      \* lines 174-188, reached when line 173 raised nothing
      p2 == [p1 EXCEPT !.weights_chart = TRUE, !.final_weights = fw.weights,
                       !.return_plots = ~empty,
                       !.warnings = @ + (IF bench # "" /\ bench_dl = "exception" THEN 1 ELSE 0),
                       !.report = ~empty]
  IN  IF r.exception # "none" THEN [p0 EXCEPT !.exception = r.exception]
      ELSE IF fw.raises THEN [p1 EXCEPT !.exception = "ZeroDivisionError"]
      ELSE p2

\* what the benchmark download of line 182 can do: return (rows or none,
\* the report's benchmark) or raise (a warning); none is made for a blank ticker
BenchmarkDownloads(bench) == IF bench = "" THEN {"skipped"} ELSE {"returned", "exception"}

\* lines 152-154, 189-190: both checks passed, no download returned data
GenerateNoData ==
  /\ tickers # <<>>
  /\ ~DatesRejected(start_date, end_date)
  /\ \E dls \in DownloadSeqs(tickers, start_date, end_date) :
       \E vd \in {valid_data(tickers, dls, Len(tickers))} :
         /\ vd.keys = <<>>
         /\ downloads' = dls
         /\ data' = fetch_data(tickers, dls)
         /\ ui' = [BlankPage EXCEPT !.fetch_called = TRUE, !.errors = 1,
                                    !.warnings = vd.warnings]
  /\ valid_weights' = <<>>
  /\ portfolio_returns' = NotComputed
  /\ pc' = "analysed"
  /\ SidebarKept

\* lines 152-188: both checks passed and fetch_data returned a table
GenerateResults ==
  /\ tickers # <<>>
  /\ ~DatesRejected(start_date, end_date)
  /\ \E dls \in DownloadSeqs(tickers, start_date, end_date) :
       \E df \in {fetch_data(tickers, dls)} :
         /\ ~df.isNone
         /\ \E r \in {compute_portfolio_returns(df, ticker_weight_map, fm) : fm \in FillMethods} :
              \E bench_dl \in BenchmarkDownloads(benchmark_ticker) :
                /\ downloads' = dls
                /\ data' = df
                /\ valid_weights' = r.valid_weights
                /\ portfolio_returns' =
                     [exception |-> r.exception, index |-> r.series.index,
                      values |-> r.series.values]
                /\ ui' = results_page(tickers, df, ticker_weight_map,
                                      fetch_warnings(tickers, dls), r,
                                      benchmark_ticker, bench_dl)
  /\ pc' = "analysed"
  /\ SidebarKept

Next ==
  \/ EditTickers
  \/ MoveSlider
  \/ PickStartDate
  \/ PickEndDate
  \/ EditBenchmark
  \/ GenerateNoTickers
  \/ GenerateBadDates
  \/ GenerateNoData
  \/ GenerateResults

Spec == Init /\ [][Next]_vars

(***************************************************************************)
(* Claims about a "Generate Analysis" run, checked under Spec.             *)
(***************************************************************************)
Analysed == pc = "analysed"
TableFetched == Analysed /\ ~data.isNone
Produced == ui.metrics \/ ui.weights_chart \/ ui.return_plots \/ ui.report

\* the requested weights of the surviving tickers add up to 0
SurvivorsWeighZero ==
  RSum([j \in 1..NCols(data) |-> ticker_weight_map[data.columns[j]]]) = Zero

\* C3: in a run whose fetch returned a table, both realignments (the one of
\* compute_portfolio_returns and the one shown in the weights chart) raise
\* nothing, and give every survivor the equal share when the surviving
\* weights sum to zero.
C3_RealignmentNeverDividesByZero ==
  TableFetched =>
    /\ portfolio_returns.exception = "none"
    /\ ui.exception = "none"
    /\ ui.weights_chart
    /\ Len(ui.final_weights) = NCols(data)
    /\ SurvivorsWeighZero =>
         /\ \A j \in 1..NCols(data) : valid_weights[j] = Rat(1, NCols(data))
         /\ \A j \in 1..NCols(data) : ui.final_weights[j] = Rat(1, NCols(data))

\* C8: the table fetch_data returned has a price in every row for every
\* surviving instrument.
C8_EveryRowComplete == TableFetched => GapFree(data)

\* C10: fetch_data is called only when the ticker list is non-empty and the
\* start date is before the end date; metrics, weights chart, return plots
\* and report appear only in a run whose fetch returned at least one
\* instrument; every other run shows exactly one error and none of them.
C10_OutputsOnlyAfterFetch ==
  Analysed =>
    /\ ui.fetch_called => (tickers # <<>> /\ start_date < end_date)
    /\ Produced => (ui.fetch_called /\ ~data.isNone /\ NCols(data) >= 1)
    /\ data.isNone => (ui.errors = 1 /\ ~Produced)

\* C10's cases: a run that produced every output, and one stopped by each check
C10_Witness ==
  /\ Analysed /\ ui.fetch_called /\ ~data.isNone
  /\ ui.metrics /\ ui.weights_chart /\ ui.return_plots /\ ui.report
  /\ ui.errors = 0

C10_WitnessBadDates ==
  Analysed /\ tickers # <<>> /\ start_date >= end_date /\ ~ui.fetch_called /\ ui.errors = 1

C10_WitnessNoData ==
  Analysed /\ ui.fetch_called /\ data.isNone /\ ui.errors = 1 /\ ui.warnings = Len(tickers)

====
